---- MODULE Spec2Model ----
(***************************************************************************)
(* A model of the serial (USART) driver of src/src/serial.rs and of the    *)
(* cycle-counter timer of src/src/time.rs.                                 *)
(*                                                                         *)
(* Three specifications share the module's variables:                      *)
(*   Spec       Serial::usartX .. listen/unlisten .. split/free, and       *)
(*              Rx::circ_read on the split-off receiver, register write by *)
(*              register write;                                            *)
(*   SpecIo     Rx::read, Tx::write and Tx::flush on the two halves, each  *)
(*              as its status sample followed by its data access, against  *)
(*              the peripheral's own behaviour;                            *)
(*   SpecTimer  MonoTimer::new and the timer's operations against the free *)
(*              running 32-bit cycle counter.                              *)
(***************************************************************************)
EXTENDS Integers, Sequences, FiniteSets, TLC

VARIABLES
    \* ---- Serial::usartX, listen, unlisten, split, free
    usart,        \* the instance the hal! macro was expanded for
    clocks,       \* the Clocks argument: [pclk1, pclk2] in Hz
    baud_rate,    \* the Bps argument
    sp,           \* position in the life of the Serial value
    brrLocal,     \* the local `brr` of usartX
    enr,          \* APB enable register, bit usartXen
    rstr,         \* APB reset register, bit usartXrst
    brr,          \* USART_BRR
    cr1,          \* USART_CR1, by field
    \* ---- the peripheral's status and data registers
    isr,          \* USART_ISR, by flag
    rdr,          \* USART_RDR
    tdr,          \* USART_TDR
    \* ---- the two halves
    rx,           \* Rx: position, status sample, result, register accesses
    tx,           \* Tx: position, status sample, byte, result, accesses
    \* ---- Rx::circ_read
    buffer,       \* the &'static mut [B; 2] argument: [addr, len]
    cmar, cndtr, cpar, ccr,   \* the DMA channel's registers
    chan,         \* the channel circ_read was given: `mut chan: $rx_chan`
    \* ---- MonoTimer
    overflow_checks,  \* the build: whether u32 arithmetic traps on overflow
    cyccnt,       \* DWT_CYCCNT, the free running cycle counter
    cycena,       \* DWT_CTRL.CYCCNTENA
    lastCount,    \* MonoTimer.lastCount
    ticks,        \* delay's local `ticks`
    remaining,    \* delay's local `remaining`
    tp,           \* position of the code using the timer
    wrapped,      \* the last has_wrapped() call: counter read, lastCount, result
    \* ---- history, for stating the properties
    age,          \* counter increments since Init
    req,          \* the running delay: ticks requested, lastCount at entry,
                  \* increments since entry and since lastCount was recorded,
                  \* whether the final busy-wait has seen the ticks elapse
    from,         \* how delay's outer loop head was last reached
    before,       \* the registers as usartX found them: [brr, cr1, enr]
    moved,        \* whether a frame arrived or a flag was cleared by
                  \* other code since read() last sampled the status: "no",
                  \* "during" that read only, or "after" it returned
    asked         \* per event, the last of listen/unlisten called for it

serialVars == <<usart, clocks, baud_rate, sp, brrLocal, enr, rstr, brr, cr1,
                before, asked>>
hwVars     == <<isr, rdr, tdr>>
halfVars   == <<rx, tx, moved>>
dmaVars    == <<buffer, cmar, cndtr, cpar, ccr, chan>>
timerVars  == <<overflow_checks, cyccnt, cycena, lastCount, ticks, remaining,
                tp, wrapped, age, req, from>>
vars       == <<serialVars, hwVars, halfVars, dmaVars, timerVars>>

(***************************************************************************)
(* Widths. TLC's integers are 32-bit signed, so a u32 that can come near   *)
(* 2^32 (the cycle counter and what is computed from it) is kept as its    *)
(* two 16-bit halves [hi, lo], with the arithmetic of the full word.       *)
(***************************************************************************)
U16 == 65536

W32(h, l) == [hi |-> h, lo |-> l]
Zero32    == W32(0, 0)

\* a < b as unsigned 32-bit numbers
Lt32(a, b) == a.hi < b.hi \/ (a.hi = b.hi /\ a.lo < b.lo)

\* (c + 1) mod 2^32
Inc32(c) ==
    IF c.lo = U16 - 1 THEN W32((c.hi + 1) % U16, 0) ELSE W32(c.hi, c.lo + 1)

\* (a - b) mod 2^32
Sub32(a, b) ==
    IF a.lo >= b.lo THEN W32((a.hi - b.hi) % U16, a.lo - b.lo)
                    ELSE W32((a.hi - b.hi - 1) % U16, a.lo - b.lo + U16)

\* A u32 below 2^31 as a number, and a u64 (here always below 2^31) against
\* a u32 widened by u64(..)
Small32(c)   == c.hi < U16 \div 2
Num32(c)     == c.hi * U16 + c.lo
Gt64(t, c)   == Small32(c) /\ t > Num32(c)
Lt64(t, c)   == ~Small32(c) \/ t < Num32(c)

(***************************************************************************)
(* The hal! invocation: per instance, its bus, its clock and its channels  *)
(***************************************************************************)
Instances == {"USART1", "USART2"}

\* $pclkX: USART1 is clocked by pclk2 (APB2), USART2 by pclk1 (APB1R1)
pclkX(u, c) == IF u = "USART1" THEN c.pclk2 ELSE c.pclk1

(***************************************************************************)
(* Inputs                                                                  *)
(***************************************************************************)
\* Bus frequencies and baud rates around the divisor's limit of 16:
\* 1843200 / 115200 = 16, 1843199 / 115200 = 15, 80000000 / 5000001 = 15.
Freqs == {1843199, 1843200, 80000000}
Bauds == {0, 9600, 115200, 5000001}

(***************************************************************************)
(* USART_CR1 and USART_ISR                                                 *)
(***************************************************************************)
CR1Reset == [ue |-> FALSE, re |-> FALSE, te |-> FALSE,
             rxneie |-> FALSE, txeie |-> FALSE]
\* A control register left behind by earlier code
CR1Used  == [ue |-> TRUE, re |-> FALSE, te |-> TRUE,
             rxneie |-> TRUE, txeie |-> TRUE]

ISRReset == [pe |-> FALSE, fe |-> FALSE, nf |-> FALSE, ore |-> FALSE,
             rxne |-> FALSE, txe |-> TRUE, tc |-> TRUE]

\* The flags of a status sample each half goes on to test
RxFlags(i) == [pe |-> i.pe, fe |-> i.fe, nf |-> i.nf, ore |-> i.ore,
               rxne |-> i.rxne]
TxFlags(i) == [txe |-> i.txe, tc |-> i.tc]

RxIdle == [pc |-> "idle", isr |-> RxFlags(ISRReset), res |-> "none",
           byte |-> 0, acc |-> << >>, seen |-> 0, follows |-> "none"]
TxIdle == [pc |-> "idle", op |-> "none", isr |-> TxFlags(ISRReset),
           byte |-> 0, res |-> "none", acc |-> << >>]

(***************************************************************************)
(* Serial::usartX, one register access per step                            *)
(***************************************************************************)
\* `let brr = clocks.$pclkX().0 / baud_rate.0`: u32 division
Divisor(f, b) == f \div b

\* Faulty variant: the limit itself is refused
BaudOk_Strict(d) == d > 16

\* `assert!(brr >= 16, "impossible baud rate")`
BaudOk(d) == d >= 16

\* `usart.cr1.write(|w| w.ue().set_bit().re().set_bit().te().set_bit())`:
\* write() starts from the reset value, so every other field is cleared
CR1Enabled == [CR1Reset EXCEPT !.ue = TRUE, !.re = TRUE, !.te = TRUE]

\* apb.enr().modify(|_, w| w.$usartXen().set_bit())
EnableClock ==
    /\ sp = "new"
    /\ enr' = TRUE
    /\ sp' = "rst_set"
    /\ UNCHANGED <<usart, clocks, baud_rate, before, asked, brrLocal, rstr, brr, cr1>>
    /\ UNCHANGED <<hwVars, halfVars, dmaVars, timerVars>>

\* apb.rstr().modify(|_, w| w.$usartXrst().set_bit()): the peripheral is held
\* in reset and its registers take their reset values
ResetSet ==
    /\ sp = "rst_set"
    /\ rstr' = TRUE
    /\ brr' = 0
    /\ cr1' = CR1Reset
    /\ isr' = ISRReset
    /\ rdr' = 0
    /\ tdr' = 0
    /\ sp' = "rst_clear"
    /\ UNCHANGED <<usart, clocks, baud_rate, before, asked, brrLocal, enr>>
    /\ UNCHANGED <<halfVars, dmaVars, timerVars>>

\* apb.rstr().modify(|_, w| w.$usartXrst().clear_bit())
ResetClear ==
    /\ sp = "rst_clear"
    /\ rstr' = FALSE
    /\ sp' = "divide"
    /\ UNCHANGED <<usart, clocks, baud_rate, before, asked, brrLocal, enr, brr, cr1>>
    /\ UNCHANGED <<hwVars, halfVars, dmaVars, timerVars>>

\* The division (which panics on a zero baud rate) and the assertion
Divide ==
    /\ sp = "divide"
    /\ IF baud_rate = 0
         THEN /\ sp' = "panicked"
              /\ UNCHANGED brrLocal
         ELSE /\ brrLocal' = Divisor(pclkX(usart, clocks), baud_rate)
              /\ sp' = IF BaudOk(brrLocal') THEN "brr_write" ELSE "panicked"
    /\ UNCHANGED <<usart, clocks, baud_rate, before, asked, enr, rstr, brr, cr1>>
    /\ UNCHANGED <<hwVars, halfVars, dmaVars, timerVars>>

\* Faulty variant: the control register is written where the baud register
\* should be, so the peripheral is enabled with no divisor in place
WriteBrr_EnableFirst ==
    /\ sp = "brr_write"
    /\ cr1' = CR1Enabled
    /\ sp' = "cr1_write"
    /\ UNCHANGED <<usart, clocks, baud_rate, before, asked, brrLocal, enr, rstr, brr>>
    /\ UNCHANGED <<hwVars, halfVars, dmaVars, timerVars>>

\* usart.brr.write(|w| unsafe { w.bits(brr) })
WriteBrr ==
    /\ sp = "brr_write"
    /\ brr' = brrLocal
    /\ sp' = "cr1_write"
    /\ UNCHANGED <<usart, clocks, baud_rate, before, asked, brrLocal, enr, rstr, cr1>>
    /\ UNCHANGED <<hwVars, halfVars, dmaVars, timerVars>>

\* usart.cr1.write(..), then `Serial { usart, pins }`
WriteCr1 ==
    /\ sp = "cr1_write"
    /\ cr1' = CR1Enabled
    /\ sp' = "serial"
    /\ UNCHANGED <<usart, clocks, baud_rate, before, asked, brrLocal, enr, rstr, brr>>
    /\ UNCHANGED <<hwVars, halfVars, dmaVars, timerVars>>

(***************************************************************************)
(* listen, unlisten, split, free                                           *)
(***************************************************************************)
Events == {"Rxne", "Txe"}

\* No listen or unlisten call made yet
NotAsked == [e \in Events |-> "none"]

\* Faulty variant: write() where modify() is meant, so every other field of
\* the control register falls back to its reset value
listen_Write(event) ==
    /\ sp = "serial"
    /\ cr1' = IF event = "Rxne" THEN [CR1Reset EXCEPT !.rxneie = TRUE]
                                ELSE [CR1Reset EXCEPT !.txeie = TRUE]
    /\ asked' = [asked EXCEPT ![event] = "listen"]
    /\ UNCHANGED <<usart, clocks, baud_rate, before, sp, brrLocal, enr, rstr, brr>>
    /\ UNCHANGED <<hwVars, halfVars, dmaVars, timerVars>>

\* self.usart.cr1.modify(|_, w| w.rxneie().set_bit()) / w.txeie().set_bit()
listen(event) ==
    /\ sp = "serial"
    /\ cr1' = IF event = "Rxne" THEN [cr1 EXCEPT !.rxneie = TRUE]
                                ELSE [cr1 EXCEPT !.txeie = TRUE]
    /\ asked' = [asked EXCEPT ![event] = "listen"]
    /\ UNCHANGED <<usart, clocks, baud_rate, before, sp, brrLocal, enr, rstr, brr>>
    /\ UNCHANGED <<hwVars, halfVars, dmaVars, timerVars>>

\* self.usart.cr1.modify(|_, w| w.rxneie().clear_bit()) / w.txeie().clear_bit()
unlisten(event) ==
    /\ sp = "serial"
    /\ cr1' = IF event = "Rxne" THEN [cr1 EXCEPT !.rxneie = FALSE]
                                ELSE [cr1 EXCEPT !.txeie = FALSE]
    /\ asked' = [asked EXCEPT ![event] = "unlisten"]
    /\ UNCHANGED <<usart, clocks, baud_rate, before, sp, brrLocal, enr, rstr, brr>>
    /\ UNCHANGED <<hwVars, halfVars, dmaVars, timerVars>>

\* split(self) -> (Tx, Rx): the Serial value is consumed, no register is touched
split ==
    /\ sp = "serial"
    /\ sp' = "split"
    /\ rx' = RxIdle
    /\ tx' = TxIdle
    /\ moved' = "no"
    /\ UNCHANGED <<usart, clocks, baud_rate, before, asked, brrLocal, enr, rstr, brr, cr1>>
    /\ UNCHANGED <<hwVars, dmaVars, timerVars>>

\* Faulty variant: the peripheral is switched off before it is handed back
free_Disabling ==
    /\ sp = "serial"
    /\ sp' = "freed"
    /\ cr1' = [cr1 EXCEPT !.ue = FALSE]
    /\ UNCHANGED <<usart, clocks, baud_rate, before, asked, brrLocal, enr, rstr, brr>>
    /\ UNCHANGED <<hwVars, halfVars, dmaVars, timerVars>>

\* free(self) -> (USART, PINS): hands the peripheral back, no register is touched
free ==
    /\ sp = "serial"
    /\ sp' = "freed"
    /\ UNCHANGED <<usart, clocks, baud_rate, before, asked, brrLocal, enr, rstr, brr, cr1>>
    /\ UNCHANGED <<hwVars, halfVars, dmaVars, timerVars>>

(***************************************************************************)
(* Register accesses made by an operation, in order                        *)
(***************************************************************************)
Rd(reg)    == [k |-> "r", reg |-> reg, v |-> 0]
Wr(reg, v) == [k |-> "w", reg |-> reg, v |-> v]

(***************************************************************************)
(* The peripheral's reaction to a load or a store of one of its registers  *)
(***************************************************************************)
\* The value a load returns
BusValue(reg) ==
    CASE reg = "rdr" -> rdr
      [] reg = "tdr" -> tdr
      [] OTHER -> 0

\* A load: reading RDR clears RXNE, other loads have no side effect
BusRead(reg) ==
    /\ isr' = IF reg = "rdr" THEN [isr EXCEPT !.rxne = FALSE] ELSE isr
    /\ UNCHANGED <<rdr, tdr>>

\* A store: writing TDR fills it and clears TXE and TC; RDR is read-only
BusWrite(reg, v) ==
    IF reg = "tdr"
      THEN /\ tdr' = v
           /\ isr' = [isr EXCEPT !.txe = FALSE, !.tc = FALSE]
           /\ UNCHANGED rdr
      ELSE UNCHANGED hwVars

(***************************************************************************)
(* Rx::read                                                                *)
(***************************************************************************)
\* Faulty variant: framing is tested before parity
ReadOutcome_FramingFirst(i) ==
    IF i.fe THEN "Framing"
    ELSE IF i.pe THEN "Parity"
    ELSE IF i.nf THEN "Noise"
    ELSE IF i.ore THEN "Overrun"
    ELSE IF i.rxne THEN "Data"
    ELSE "WouldBlock"

\* Faulty variant: data-ready is tested before the error flags
ReadOutcome_DataFirst(i) ==
    IF i.rxne THEN "Data"
    ELSE IF i.pe THEN "Parity"
    ELSE IF i.fe THEN "Framing"
    ELSE IF i.nf THEN "Noise"
    ELSE IF i.ore THEN "Overrun"
    ELSE "WouldBlock"

\* The if / else-if chain over the status sample
ReadOutcome(i) ==
    IF i.pe THEN "Parity"
    ELSE IF i.fe THEN "Framing"
    ELSE IF i.nf THEN "Noise"
    ELSE IF i.ore THEN "Overrun"
    ELSE IF i.rxne THEN "Data"
    ELSE "WouldBlock"

\* nb::Error::Other(Error::..) and nb::Error::WouldBlock
ReadFailures == {"Parity", "Framing", "Noise", "Overrun", "WouldBlock"}

\* Faulty variant: the receiver loads the transmit data register
RxDataReg_Tdr == "tdr"

\* `ptr::read_volatile(&(*$USARTX::ptr()).rdr ..)`: the register read() loads
RxDataReg == "rdr"

\* History: what the read() now sampling follows on. "Ok" if the last read()
\* returned a byte and nothing has moved since it returned; that read's error
\* or WouldBlock if nothing has moved since it sampled; "none" otherwise.
Follows(res, m) ==
    IF res = "Ok" /\ m # "after" THEN "Ok"
    ELSE IF res \in ReadFailures /\ m = "no" THEN res
    ELSE "none"

\* `let isr = unsafe { (*$USARTX::ptr()).isr.read() }`. The history also keeps
\* what the data register held at this moment.
RxReadSample ==
    /\ sp = "split"
    /\ rx.pc = "idle"
    /\ rx' = [pc |-> "sampled", isr |-> RxFlags(isr), res |-> "none",
              byte |-> 0, acc |-> <<Rd("isr")>>,
              seen |-> BusValue(RxDataReg), follows |-> Follows(rx.res, moved)]
    /\ moved' = "no"
    /\ UNCHANGED <<serialVars, hwVars, tx, dmaVars, timerVars>>

\* Faulty variant: the data register is loaded a second time for the value
\* to return
RxReadReturn_ReadTwice ==
    /\ rx.pc = "sampled"
    /\ LET o == ReadOutcome(rx.isr) IN
       IF o = "Data"
         THEN /\ rx' = [rx EXCEPT !.pc = "idle", !.res = "Ok",
                                  !.byte = BusValue(RxDataReg),
                                  !.acc = @ \o <<Rd(RxDataReg), Rd(RxDataReg)>>]
              /\ BusRead(RxDataReg)
         ELSE /\ rx' = [rx EXCEPT !.pc = "idle", !.res = o]
              /\ UNCHANGED hwVars
    /\ UNCHANGED <<serialVars, tx, moved, dmaVars, timerVars>>

\* The chain's outcome: an error, WouldBlock, or the volatile read of RDR
RxReadReturn ==
    /\ rx.pc = "sampled"
    /\ LET o == ReadOutcome(rx.isr) IN
       IF o = "Data"
         THEN /\ rx' = [rx EXCEPT !.pc = "idle", !.res = "Ok",
                                  !.byte = BusValue(RxDataReg),
                                  !.acc = Append(@, Rd(RxDataReg))]
              /\ BusRead(RxDataReg)
         ELSE /\ rx' = [rx EXCEPT !.pc = "idle", !.res = o]
              /\ UNCHANGED hwVars
    /\ UNCHANGED <<serialVars, tx, moved, dmaVars, timerVars>>

(***************************************************************************)
(* Tx::write and Tx::flush                                                 *)
(***************************************************************************)
Bytes == {65, 255}

\* write: `let isr = unsafe { (*$USARTX::ptr()).isr.read() }`
TxWriteSample(byte) ==
    /\ sp = "split"
    /\ tx.pc = "idle"
    /\ tx' = [pc |-> "sampled", op |-> "write", isr |-> TxFlags(isr), byte |-> byte,
              res |-> "none", acc |-> <<Rd("isr")>>]
    /\ UNCHANGED <<serialVars, hwVars, rx, moved, dmaVars, timerVars>>

\* Faulty variant: the byte is stored without looking at TXE
WriteReady_Always(i) == TRUE

\* `if isr.txe().bit_is_set()`
WriteReady(i) == i.txe

\* Faulty variant: the transmitter stores to the receive data register
TxDataReg_Rdr == "rdr"

\* `ptr::write_volatile(&(*$USARTX::ptr()).tdr .., byte)`: the register
\* write() stores to
TxDataReg == "tdr"

\* write: the volatile write of the byte, or WouldBlock
TxWriteReturn ==
    /\ tx.pc = "sampled"
    /\ tx.op = "write"
    /\ IF WriteReady(tx.isr)
         THEN /\ tx' = [tx EXCEPT !.pc = "idle", !.res = "Ok",
                                  !.acc = Append(@, Wr(TxDataReg, tx.byte))]
              /\ BusWrite(TxDataReg, tx.byte)
         ELSE /\ tx' = [tx EXCEPT !.pc = "idle", !.res = "WouldBlock"]
              /\ UNCHANGED hwVars
    /\ UNCHANGED <<serialVars, rx, moved, dmaVars, timerVars>>

\* flush: `let isr = unsafe { (*$USARTX::ptr()).isr.read() }`
TxFlushSample ==
    /\ sp = "split"
    /\ tx.pc = "idle"
    /\ tx' = [pc |-> "sampled", op |-> "flush", isr |-> TxFlags(isr), byte |-> 0,
              res |-> "none", acc |-> <<Rd("isr")>>]
    /\ UNCHANGED <<serialVars, hwVars, rx, moved, dmaVars, timerVars>>

\* Faulty variant: an empty data register is taken for a completed transmission
FlushDone_Txe(i) == i.txe

\* `if isr.tc().bit_is_set()`
FlushDone(i) == i.tc

\* flush: Ok(()) or Err(WouldBlock), no further register access
TxFlushReturn ==
    /\ tx.pc = "sampled"
    /\ tx.op = "flush"
    /\ tx' = [tx EXCEPT !.pc = "idle",
                        !.res = IF FlushDone(tx.isr) THEN "Ok" ELSE "WouldBlock"]
    /\ UNCHANGED <<serialVars, hwVars, rx, moved, dmaVars, timerVars>>

(***************************************************************************)
(* The peripheral                                                          *)
(***************************************************************************)
\* History: something the receiver's flags depend on moves. Before the first
\* read() and once circ_read has taken the receiver there is nothing to keep.
Moved(m) ==
    IF rx.pc = "sampled" THEN (IF m = "no" THEN "during" ELSE m)
    ELSE IF rx.pc = "idle" /\ rx.res # "none" THEN "after"
    ELSE m

\* What the receiver may find wrong with one frame, and the frames' bytes
LineErrors == {{}, {"pe"}, {"fe"}, {"nf"}, {"pe", "fe"}}
RxBytes    == {90}

\* A frame arrives. With RDR still full it is lost and ORE is raised;
\* otherwise it lands in RDR and RXNE is raised. Either way the receiver
\* raises PE, FE and NF for what it saw on the line.
HwReceive(b, e) ==
    /\ cr1.ue /\ cr1.re
    /\ sp = "split"
    /\ isr' = [isr EXCEPT !.rxne = TRUE,
                          !.ore = @ \/ isr.rxne,
                          !.pe = @ \/ "pe" \in e,
                          !.fe = @ \/ "fe" \in e,
                          !.nf = @ \/ "nf" \in e]
    /\ rdr' = IF isr.rxne THEN rdr ELSE b
    /\ moved' = Moved(moved)
    /\ UNCHANGED <<serialVars, tdr, rx, tx, dmaVars, timerVars>>

\* Code outside the driver (the caller's recovery from an error) clears an
\* error flag through USART_ICR; the driver itself never does
ErrorFlags == {"pe", "fe", "nf", "ore"}
IcrClear(f) ==
    /\ sp = "split"
    /\ isr[f]
    /\ isr' = [isr EXCEPT ![f] = FALSE]
    /\ moved' = Moved(moved)
    /\ UNCHANGED <<serialVars, rdr, tdr, rx, tx, dmaVars, timerVars>>

\* TDR is moved to the shift register: TXE is raised
HwTxShift ==
    /\ cr1.ue /\ cr1.te
    /\ sp = "split"
    /\ ~isr.txe
    /\ isr' = [isr EXCEPT !.txe = TRUE]
    /\ UNCHANGED <<serialVars, rdr, tdr, halfVars, dmaVars, timerVars>>

\* The last frame has left the shift register with TDR empty: TC is raised
HwTxComplete ==
    /\ cr1.ue /\ cr1.te
    /\ sp = "split"
    /\ isr.txe /\ ~isr.tc
    /\ isr' = [isr EXCEPT !.tc = TRUE]
    /\ UNCHANGED <<serialVars, rdr, tdr, halfVars, dmaVars, timerVars>>

(***************************************************************************)
(* Rx::circ_read                                                           *)
(***************************************************************************)
\* The hal! invocation's table
HalTable ==
    [USART1 |-> [tx |-> "C4", rx |-> "C5"],
     USART2 |-> [tx |-> "C7", rx |-> "C6"]]

\* The macro pattern reads `tx: $rx_chan:path, rx: $tx_chan:path`:
\* $rx_chan, the type of circ_read's channel, is bound to the tx: entry
rx_chan(u) == HalTable[u].tx

\* Addresses of the peripheral's registers, and of nothing
RegAddr(u, reg) == [usart |-> u, reg |-> reg]
NoAddr          == [usart |-> "none", reg |-> "none"]

\* `let buffer: &[u8] = &buffer[0]`: the first segment, and its length
Segment(b, i) == [addr |-> b.addr + i * b.len, len |-> b.len]
FirstSegment(b) == Segment(b, 0)

\* `(buffer.len() * 2) as u16`: the cast keeps the low 16 bits (the product
\* itself fits usize for every slice that fits the address space)
Ndt(len) == (len * 2) % U16

CCRReset == [mem2mem |-> FALSE, pl |-> 0, msize |-> 0, psize |-> 0,
             minc |-> FALSE, pinc |-> FALSE, circ |-> FALSE, dir |-> FALSE,
             en |-> FALSE, tcie |-> FALSE]
\* A channel configuration left behind by an earlier, finished transfer
CCRUsed  == [mem2mem |-> TRUE, pl |-> 3, msize |-> 2, psize |-> 1,
             minc |-> FALSE, pinc |-> TRUE, circ |-> FALSE, dir |-> TRUE,
             en |-> FALSE, tcie |-> TRUE]

\* Faulty variant: the direction bit is left as it was found
CcrModify_KeepDir(c) ==
    [c EXCEPT !.mem2mem = FALSE, !.pl = 2, !.msize = 0, !.psize = 0,
              !.minc = TRUE, !.pinc = FALSE, !.circ = TRUE, !.en = TRUE]

\* The fields chan.ccr().modify(..) sets; modify() keeps every other bit
CcrModify(c) ==
    [c EXCEPT !.mem2mem = FALSE, !.pl = 2, !.msize = 0, !.psize = 0,
              !.minc = TRUE, !.pinc = FALSE, !.circ = TRUE, !.dir = FALSE,
              !.en = TRUE]

\* Faulty variant: the channel is switched on as its first register is written
CircWriteCmar_EnableFirst ==
    /\ sp = "split"
    /\ rx.pc = "idle"
    /\ cmar' = FirstSegment(buffer).addr
    /\ ccr' = [ccr EXCEPT !.en = TRUE]
    /\ chan' = rx_chan(usart)
    /\ rx' = [RxIdle EXCEPT !.pc = "cndtr", !.acc = <<Wr("dma.cmar", 0)>>]
    /\ moved' = "no"
    /\ UNCHANGED <<serialVars, hwVars, tx, buffer, cndtr, cpar, timerVars>>

\* chan.cmar().write(|w| w.ma().bits(buffer.as_ptr() as usize as u32))
CircWriteCmar ==
    /\ sp = "split"
    /\ rx.pc = "idle"
    /\ cmar' = FirstSegment(buffer).addr
    /\ chan' = rx_chan(usart)
    /\ rx' = [RxIdle EXCEPT !.pc = "cndtr", !.acc = <<Wr("dma.cmar", 0)>>]
    /\ moved' = "no"
    /\ UNCHANGED <<serialVars, hwVars, tx, buffer, cndtr, cpar, ccr, timerVars>>

\* chan.cndtr().write(|w| w.ndt().bits((buffer.len() * 2) as u16))
CircWriteCndtr ==
    /\ rx.pc = "cndtr"
    /\ cndtr' = Ndt(FirstSegment(buffer).len)
    /\ rx' = [rx EXCEPT !.pc = "cpar", !.acc = Append(@, Wr("dma.cndtr", 0))]
    /\ UNCHANGED <<serialVars, hwVars, tx, moved, chan, buffer, cmar, cpar, ccr, timerVars>>

\* chan.cpar().write(|w| w.pa().bits(&(*$USARTX::ptr()).rdr as .. as u32)):
\* the address of RDR is taken, RDR is not accessed
CircWriteCpar ==
    /\ rx.pc = "cpar"
    /\ cpar' = RegAddr(usart, "rdr")
    /\ rx' = [rx EXCEPT !.pc = "ccr", !.acc = Append(@, Wr("dma.cpar", 0))]
    /\ UNCHANGED <<serialVars, hwVars, tx, moved, chan, buffer, cmar, cndtr, ccr, timerVars>>

\* atomic::compiler_fence(Ordering::SeqCst), then chan.ccr().modify(..) and
\* CircBuffer::new(buffer, chan): the Rx value is consumed
CircModifyCcr ==
    /\ rx.pc = "ccr"
    /\ ccr' = CcrModify(ccr)
    /\ rx' = [rx EXCEPT !.pc = "circ", !.res = "CircBuffer",
                        !.acc = @ \o <<Rd("dma.ccr"), Wr("dma.ccr", 0)>>]
    /\ UNCHANGED <<serialVars, hwVars, tx, moved, chan, buffer, cmar, cndtr, cpar, timerVars>>

(***************************************************************************)
(* MonoTimer                                                               *)
(***************************************************************************)
\* u32::max_value()
MAX_COUNT == W32(U16 - 1, U16 - 1)

\* Counter increments a run may see
MaxAge == 40

\* Counter values at which the counter is enabled, and tick counts asked of
\* delay (Frequency::ticks_in(d), a u64)
StartCounts == {Zero32, W32(65535, 65520)}
DelayTicks  == {0, 1, 3, 32}

NoDelay == [ticks |-> 0, entry |-> Zero32, elapsed |-> 0, sinceLast |-> 0,
            reached |-> FALSE]
NoCall  == [cur |-> Zero32, last |-> Zero32, res |-> FALSE, called |-> FALSE]

\* The counter counts one cycle
Tick ==
    /\ cycena
    /\ age < MaxAge
    /\ cyccnt' = Inc32(cyccnt)
    /\ age' = age + 1
    /\ req' = [req EXCEPT !.elapsed = @ + 1, !.sinceLast = @ + 1]
    /\ UNCHANGED <<overflow_checks, cycena, lastCount, ticks, remaining, tp,
                   wrapped, from>>
    /\ UNCHANGED <<serialVars, hwVars, halfVars, dmaVars>>

\* MonoTimer::new: dwt.enable_cycle_counter(), lastCount: DWT::get_cycle_count()
MonoTimerNew ==
    /\ tp = "none"
    /\ cycena' = TRUE
    /\ lastCount' = cyccnt
    /\ tp' = "idle"
    /\ UNCHANGED <<overflow_checks, cyccnt, ticks, remaining, wrapped, age,
                   req, from>>
    /\ UNCHANGED <<serialVars, hwVars, halfVars, dmaVars>>

\* Faulty variant: a counter that has not moved counts as wrapped
has_wrapped_OrEqual(current, last) == ~Lt32(last, current)

\* `self.get_current() < self.lastCount`
has_wrapped(current, last) == Lt32(current, last)

\* has_wrapped() called on the idle timer
HasWrappedCall ==
    /\ tp = "idle"
    /\ wrapped' = [cur |-> cyccnt, last |-> lastCount,
                   res |-> has_wrapped(cyccnt, lastCount), called |-> TRUE]
    /\ UNCHANGED <<overflow_checks, cyccnt, cycena, lastCount, ticks,
                   remaining, tp, age, req, from>>
    /\ UNCHANGED <<serialVars, hwVars, halfVars, dmaVars>>

\* wait(): `Err(nb::Error::WouldBlock)` whatever the counter shows; nothing is
\* read and nothing is written
wait ==
    /\ tp = "idle"
    /\ UNCHANGED <<serialVars, hwVars, halfVars, dmaVars, timerVars>>

\* get_current(): `DWT::get_cycle_count()`, a read of the counter
get_current ==
    /\ tp = "idle"
    /\ UNCHANGED <<serialVars, hwVars, halfVars, dmaVars, timerVars>>

\* tick(): `self.frequency.tick()`, computed from the frequency alone
tick ==
    /\ tp = "idle"
    /\ UNCHANGED <<serialVars, hwVars, halfVars, dmaVars, timerVars>>

\* start(self) -> Self: `MonoTimer { frequency, lastCount: self.get_current() }`.
\* MonoTimer is Copy: the call works on a copy and the timer followed from
\* here on is the one returned. The history of earlier calls ends here.
start ==
    /\ tp = "idle"
    /\ lastCount' = cyccnt
    /\ wrapped' = NoCall
    /\ req' = NoDelay
    /\ from' = "none"
    /\ UNCHANGED <<overflow_checks, cyccnt, cycena, ticks, remaining, tp, age>>
    /\ UNCHANGED <<serialVars, hwVars, halfVars, dmaVars>>

\* Faulty variant: stopping the timer stops the counter
stop_Disabling ==
    /\ tp = "idle"
    /\ cycena' = FALSE
    /\ lastCount' = cyccnt
    /\ wrapped' = NoCall
    /\ req' = NoDelay
    /\ from' = "none"
    /\ UNCHANGED <<overflow_checks, cyccnt, ticks, remaining, tp, age>>
    /\ UNCHANGED <<serialVars, hwVars, halfVars, dmaVars>>

\* stop(self) -> Self: the same expression as start
stop ==
    /\ tp = "idle"
    /\ lastCount' = cyccnt
    /\ wrapped' = NoCall
    /\ req' = NoDelay
    /\ from' = "none"
    /\ UNCHANGED <<overflow_checks, cyccnt, cycena, ticks, remaining, tp, age>>
    /\ UNCHANGED <<serialVars, hwVars, halfVars, dmaVars>>

\* delay: `let ticks = self.frequency.ticks_in(d); self.update_count();`
DelayCall(t) ==
    /\ tp = "idle"
    /\ ticks' = t
    /\ lastCount' = cyccnt
    /\ req' = [ticks |-> t, entry |-> cyccnt, elapsed |-> 0, sinceLast |-> 0,
               reached |-> FALSE]
    /\ tp' = "outer"
    /\ from' = "entry"
    /\ wrapped' = NoCall
    /\ UNCHANGED <<overflow_checks, cyccnt, cycena, remaining, age>>
    /\ UNCHANGED <<serialVars, hwVars, halfVars, dmaVars>>

\* `while ticks != 0`
LoopAgain(t) == t # 0

\* The head of the outer loop: the loop test, `remaining` and the branch
DelayOuter ==
    /\ tp = "outer"
    /\ IF LoopAgain(ticks)
         THEN /\ remaining' = Sub32(MAX_COUNT, lastCount)
              /\ tp' = IF Gt64(ticks, remaining') THEN "wait_wrap" ELSE "final_wait"
              /\ UNCHANGED from
         ELSE /\ tp' = "idle"
              /\ from' = "returned"
              /\ UNCHANGED remaining
    /\ UNCHANGED <<overflow_checks, cyccnt, cycena, lastCount, ticks, wrapped,
                   age, req>>
    /\ UNCHANGED <<serialVars, hwVars, halfVars, dmaVars>>

\* `while !self.has_wrapped() {}`: one test of the loop
DelayWaitWrap ==
    /\ tp = "wait_wrap"
    /\ tp' = IF has_wrapped(cyccnt, lastCount) THEN "after_wrap" ELSE "wait_wrap"
    /\ UNCHANGED <<overflow_checks, cyccnt, cycena, lastCount, ticks,
                   remaining, wrapped, age, req, from>>
    /\ UNCHANGED <<serialVars, hwVars, halfVars, dmaVars>>

\* `self.update_count(); ticks -= u64(remaining);`
DelayAfterWrap ==
    /\ tp = "after_wrap"
    /\ lastCount' = cyccnt
    /\ ticks' = ticks - Num32(remaining)
    /\ req' = [req EXCEPT !.sinceLast = 0, !.reached = FALSE]
    /\ tp' = "outer"
    /\ from' = "wrap"
    /\ UNCHANGED <<overflow_checks, cyccnt, cycena, remaining, wrapped, age>>
    /\ UNCHANGED <<serialVars, hwVars, halfVars, dmaVars>>

\* `while ticks < u64(...) {}`: whether the final busy-wait goes round again
FinalWaitSpins(t, diff) == Lt64(t, diff)

\* Faulty variant: the final busy-wait, once left, ends the delay
TicksAfterFinalWait_Zero(t) == 0

\* `ticks` once the final busy-wait is left: the code leaves it as it is
TicksAfterFinalWait(t) == t

\* `while ticks < u64(self.get_current() - self.lastCount) {}`: one test of
\* the loop. The u32 subtraction traps on underflow in a build with overflow
\* checks and wraps in one without.
DelayFinalWait ==
    /\ tp = "final_wait"
    /\ IF Lt32(cyccnt, lastCount) /\ overflow_checks
         THEN /\ tp' = "panicked"
              /\ UNCHANGED <<ticks, from, req>>
         ELSE LET diff == Sub32(cyccnt, lastCount) IN
              /\ req' = [req EXCEPT !.reached = @ \/ ~Gt64(ticks, diff)]
              /\ IF FinalWaitSpins(ticks, diff)
                   THEN UNCHANGED <<tp, ticks, from>>
                   ELSE /\ tp' = "outer"
                        /\ ticks' = TicksAfterFinalWait(ticks)
                        /\ from' = "final"
    /\ UNCHANGED <<overflow_checks, cyccnt, cycena, lastCount, remaining,
                   wrapped, age>>
    /\ UNCHANGED <<serialVars, hwVars, halfVars, dmaVars>>

(***************************************************************************)
(* Specifications                                                          *)
(***************************************************************************)
ClockSets == [pclk1 : Freqs, pclk2 : Freqs]
BufAddrs  == {536870912, 536871936}
SegLens   == {1, 8, 32767, 32768, 40000}
Buffers   == [addr : BufAddrs, len : SegLens]

\* The timer not yet created, the counter stopped
TimerAtRest ==
    /\ overflow_checks = FALSE
    /\ cyccnt = Zero32
    /\ cycena = FALSE
    /\ lastCount = Zero32
    /\ ticks = 0
    /\ remaining = Zero32
    /\ tp = "none"
    /\ wrapped = NoCall
    /\ age = 0
    /\ req = NoDelay
    /\ from = "none"

\* The peripheral and the DMA channel as a reset leaves them
PeripheralAtReset ==
    /\ isr = ISRReset
    /\ rdr = 0
    /\ tdr = 0
    /\ cmar = 0
    /\ cndtr = 0
    /\ cpar = NoAddr

\* Before Serial::usartX: the caller's arguments, and the registers as reset
\* or earlier code left them
Init ==
    /\ usart \in Instances
    /\ clocks \in ClockSets
    /\ baud_rate \in Bauds
    /\ sp = "new"
    /\ brrLocal = 0
    /\ enr = FALSE
    /\ rstr = FALSE
    /\ \/ brr = 0 /\ cr1 = CR1Reset
       \/ brr = 694 /\ cr1 = CR1Used
    /\ before = [brr |-> brr, cr1 |-> cr1, enr |-> enr]
    /\ asked = NotAsked
    /\ PeripheralAtReset
    /\ rx = RxIdle
    /\ tx = TxIdle
    /\ moved = "no"
    /\ buffer \in Buffers
    /\ ccr \in {CCRReset, CCRUsed}
    /\ chan = "none"
    /\ TimerAtRest

Next ==
    \/ EnableClock
    \/ ResetSet
    \/ ResetClear
    \/ Divide
    \/ WriteBrr
    \/ WriteCr1
    \/ \E e \in Events : listen(e)
    \/ \E e \in Events : unlisten(e)
    \/ split
    \/ free
    \/ CircWriteCmar
    \/ CircWriteCndtr
    \/ CircWriteCpar
    \/ CircModifyCcr

Spec == Init /\ [][Next]_vars

\* The two halves right after split(), on a peripheral usartX has set up
InitIo ==
    /\ usart \in Instances
    /\ clocks = [pclk1 |-> 80000000, pclk2 |-> 80000000]
    /\ baud_rate = 115200
    /\ sp = "split"
    /\ brrLocal = 694
    /\ enr = TRUE
    /\ rstr = FALSE
    /\ brr = 694
    /\ cr1 = CR1Enabled
    /\ before = [brr |-> 0, cr1 |-> CR1Reset, enr |-> FALSE]
    /\ asked = NotAsked
    /\ PeripheralAtReset
    /\ rx = RxIdle
    /\ tx = TxIdle
    /\ moved = "no"
    /\ buffer = [addr |-> 536870912, len |-> 8]
    /\ ccr = CCRReset
    /\ chan = "none"
    /\ TimerAtRest

NextIo ==
    \/ RxReadSample
    \/ RxReadReturn
    \/ \E b \in Bytes : TxWriteSample(b)
    \/ TxWriteReturn
    \/ TxFlushSample
    \/ TxFlushReturn
    \/ \E b \in RxBytes, e \in LineErrors : HwReceive(b, e)
    \/ \E f \in ErrorFlags : IcrClear(f)
    \/ HwTxShift
    \/ HwTxComplete
    \/ CircWriteCmar
    \/ CircWriteCndtr
    \/ CircWriteCpar
    \/ CircModifyCcr

SpecIo == InitIo /\ [][NextIo]_vars

\* Before MonoTimer::new: the counter stopped at some value
InitTimer ==
    /\ usart = "USART1"
    /\ clocks = [pclk1 |-> 80000000, pclk2 |-> 80000000]
    /\ baud_rate = 115200
    /\ sp = "new"
    /\ brrLocal = 0
    /\ enr = FALSE
    /\ rstr = FALSE
    /\ brr = 0
    /\ cr1 = CR1Reset
    /\ before = [brr |-> 0, cr1 |-> CR1Reset, enr |-> FALSE]
    /\ asked = NotAsked
    /\ PeripheralAtReset
    /\ rx = RxIdle
    /\ tx = TxIdle
    /\ moved = "no"
    /\ buffer = [addr |-> 536870912, len |-> 8]
    /\ ccr = CCRReset
    /\ chan = "none"
    /\ overflow_checks \in BOOLEAN
    /\ cyccnt \in StartCounts
    /\ cycena = FALSE
    /\ lastCount = Zero32
    /\ ticks = 0
    /\ remaining = Zero32
    /\ tp = "none"
    /\ wrapped = NoCall
    /\ age = 0
    /\ req = NoDelay
    /\ from = "none"

NextTimer ==
    \/ Tick
    \/ MonoTimerNew
    \/ HasWrappedCall
    \/ wait
    \/ get_current
    \/ tick
    \/ start
    \/ stop
    \/ \E t \in DelayTicks : DelayCall(t)
    \/ DelayOuter
    \/ DelayWaitWrap
    \/ DelayAfterWrap
    \/ DelayFinalWait

SpecTimer == InitTimer /\ [][NextTimer]_vars

(***************************************************************************)
(* Properties of Rx::read and Tx::write (SpecIo)                           *)
(***************************************************************************)
RxReadDone  == rx.pc = "idle" /\ rx.res \notin {"none", "CircBuffer"}
TxWriteDone == tx.pc = "idle" /\ tx.op = "write"

\* C1: whatever combination of PE, FE, NF, ORE and RXNE read() sampled, its
\* outcome is Parity exactly if PE was set, Framing exactly if FE was set
\* without PE, Noise exactly if NF was set without PE and FE, Overrun exactly
\* if ORE was set without the three, a byte exactly if only RXNE was set, and
\* WouldBlock exactly if none was set.
C1_ReadPriority ==
    RxReadDone =>
      LET i == rx.isr IN
      /\ rx.res = "Parity"     <=> i.pe
      /\ rx.res = "Framing"    <=> ~i.pe /\ i.fe
      /\ rx.res = "Noise"      <=> ~i.pe /\ ~i.fe /\ i.nf
      /\ rx.res = "Overrun"    <=> ~i.pe /\ ~i.fe /\ ~i.nf /\ i.ore
      /\ rx.res = "Ok"         <=> ~i.pe /\ ~i.fe /\ ~i.nf /\ ~i.ore /\ i.rxne
      /\ rx.res = "WouldBlock" <=> ~i.pe /\ ~i.fe /\ ~i.nf /\ ~i.ore /\ ~i.rxne

\* read() has returned Parity on a sample with PE, FE and RXNE all set
C1_Witness ==
    RxReadDone /\ rx.isr.pe /\ rx.isr.fe /\ rx.isr.rxne /\ rx.res = "Parity"

\* C2: write(byte) returns Ok after its status read and exactly one store of
\* the byte to TDR if the sample had TXE set, and WouldBlock after the status
\* read alone if not; and the step on which it returns WouldBlock, like its
\* status read, changes no data, control, baud or status register.
C2_WriteIffTxe ==
    [][ /\ (tx.pc = "idle" /\ tx'.pc = "sampled")
           => UNCHANGED <<tdr, rdr, isr, cr1, brr>>
        /\ (tx.pc = "sampled" /\ tx.op = "write" /\ tx'.pc = "idle")
           => IF tx.isr.txe
                THEN /\ tx'.res = "Ok"
                     /\ tx'.acc = <<Rd("isr"), Wr("tdr", tx.byte)>>
                     /\ tdr' = tx.byte
                ELSE /\ tx'.res = "WouldBlock"
                     /\ tx'.acc = <<Rd("isr")>>
                     /\ UNCHANGED <<tdr, rdr, isr, cr1, brr>> ]_vars

\* write() has returned WouldBlock while TDR holds another, earlier byte
C2_Witness ==
    /\ TxWriteDone /\ tx.res = "WouldBlock" /\ ~tx.isr.txe
    /\ tdr \in Bytes /\ tdr # tx.byte

(***************************************************************************)
(* Properties of Serial::usartX and Rx::circ_read (Spec)                   *)
(***************************************************************************)
Constructed == sp \in {"serial", "split", "freed"}

\* C3: usartX goes past its assertion, and on to a Serial value, only with
\* divisor = f / b at least 16, f the instance's bus frequency, and it halts
\* only with a zero baud rate or f / b below 16.
C3_DivisorGate ==
    LET f == IF usart = "USART1" THEN clocks.pclk2 ELSE clocks.pclk1
        b == baud_rate
    IN  /\ (sp \in {"brr_write", "cr1_write"} \/ Constructed)
           => b # 0 /\ f \div b >= 16 /\ brrLocal = f \div b
        /\ sp = "panicked" => (b = 0 \/ f \div b < 16)

\* A Serial value exists whose divisor is exactly 16
C3_Witness == sp = "serial" /\ brr = 16 /\ cr1.ue

\* C8: after circ_read the transfer count register holds twice the segment
\* length, for every length.
C8_CountIsTwiceLen == rx.pc = "circ" => cndtr = 2 * buffer.len

\* C9: after circ_read the channel's memory address is the first segment's,
\* its peripheral address is RDR's, and it is enabled in circular mode,
\* peripheral to memory, memory increment on, peripheral increment off, not
\* memory to memory, priority high, 8-bit on both sides.
C9_ChannelConfig ==
    rx.pc = "circ" =>
      /\ cmar = buffer.addr
      /\ cpar = RegAddr(usart, "rdr")
      /\ ccr.circ /\ ccr.minc /\ ~ccr.pinc /\ ~ccr.dir /\ ~ccr.mem2mem
      /\ ccr.pl = 2 /\ ccr.msize = 0 /\ ccr.psize = 0
      /\ ccr.en

\* circ_read has returned on a channel that earlier code had configured
\* otherwise (its transfer-complete interrupt enable is still set)
C9_Witness == rx.pc = "circ" /\ ccr.tcie /\ ccr.en /\ cmar = buffer.addr

(***************************************************************************)
(* Properties of the two halves together (SpecIo)                          *)
(***************************************************************************)
Touched(acc) == {acc[n].reg : n \in DOMAIN acc}
Written(acc) == {acc[n].reg : n \in {m \in DOMAIN acc : acc[m].k = "w"}}

\* C10: no operation of Rx accesses TDR or writes a control or baud register
\* of the peripheral, no operation of Tx accesses RDR, and the one register
\* both touch is ISR, which neither writes.
C10_DisjointRegisters ==
    /\ "tdr" \notin Touched(rx.acc)
    /\ Written(rx.acc) \cap {"cr1", "brr", "isr", "rdr", "tdr"} = {}
    /\ "rdr" \notin Touched(tx.acc)
    /\ Written(tx.acc) \subseteq {"tdr"}
    /\ Touched(rx.acc) \cap Touched(tx.acc) \subseteq {"isr"}

\* Both halves have just completed a data access
C10_Witness ==
    /\ rx.res = "Ok" /\ "rdr" \in Touched(rx.acc)
    /\ tx.res = "Ok" /\ tx.op = "write" /\ "tdr" \in Written(tx.acc)

(***************************************************************************)
(* Properties of MonoTimer (SpecTimer)                                     *)
(***************************************************************************)
\* C7: has_wrapped() answers true exactly if the counter value it read is
\* below the recorded count, as at recorded count 0xFFFFFFF0 with the counter
\* at 5 (true) and at 0xFFFFFFF5 (false), and leaves the recorded count alone.
C7_HasWrapped ==
    wrapped.called =>
      /\ wrapped.res <=> Lt32(wrapped.cur, wrapped.last)
      /\ (wrapped.last = W32(65535, 65520) /\ wrapped.cur = W32(0, 5))
         => wrapped.res
      /\ (wrapped.last = W32(65535, 65520) /\ wrapped.cur = W32(65535, 65525))
         => ~wrapped.res
      /\ lastCount = wrapped.last

\* has_wrapped() has answered true at recorded count 0xFFFFFFF0, counter 5
C7_Witness ==
    /\ wrapped.called /\ wrapped.res
    /\ wrapped.last = W32(65535, 65520) /\ wrapped.cur = W32(0, 5)

DelayReturned == tp = "idle" /\ from = "returned"

\* The requested ticks fit within MAX_COUNT - lastCount as recorded at entry
FitsBeforeWrap == ~Gt64(req.ticks, Sub32(MAX_COUNT, req.entry))

C5_FinalWaitEnds == ~(tp = "final_wait" /\ req.reached)

\* The delay entered at recorded count 0xFFFFFFF0 with 32 ticks requested
WrapScenario == req.entry = W32(65535, 65520) /\ req.ticks = 32

\* C6: entered at recorded count 0xFFFFFFF0 with 32 ticks, delay computes
\* remaining = 15, waits for the wrap, has 17 ticks left after it, and leaves
\* its final busy-wait only once 17 more increments have passed since the
\* count it recorded after the wrap.
C6_WrapThenSeventeen ==
    (WrapScenario /\ tp # "idle") =>
      /\ tp \in {"wait_wrap", "after_wrap"} => remaining = W32(0, 15)
      /\ from \in {"wrap", "final"} => ticks = 17
      /\ from = "final" => req.sinceLast >= 17

(***************************************************************************)
(* Properties of free (Spec)                                               *)
(***************************************************************************)
\* C12, as stated: once free() has handed the peripheral back, the baud
\* register, the UE, RE and TE bits and the bus clock enable are as they were
\* before usartX.
C12_FreeRestores ==
    sp = "freed" =>
      /\ brr = before.brr
      /\ cr1.ue = before.cr1.ue
      /\ cr1.re = before.cr1.re
      /\ cr1.te = before.cr1.te
      /\ enr = before.enr

\* C12, amended: free() hands back the instance usartX was given and touches
\* no register: the peripheral comes back as usartX and listen/unlisten left
\* it, with the bus clock enabled, the reset released, the divisor in the baud
\* register, UE, RE and TE set and each interrupt enable as last asked for.
C12_FreeLeavesConfigured ==
    sp = "freed" =>
      /\ enr
      /\ ~rstr
      /\ brr = Divisor(pclkX(usart, clocks), baud_rate)
      /\ cr1.ue /\ cr1.re /\ cr1.te
      /\ cr1.rxneie = (asked["Rxne"] = "listen")
      /\ cr1.txeie = (asked["Txe"] = "listen")

\* free() has run on a peripheral that earlier code had left configured
\* differently
C12_Witness ==
    /\ sp = "freed"
    /\ before.cr1 = CR1Used
    /\ brr # before.brr
    /\ asked["Rxne"] = "unlisten"

(***************************************************************************)
(* Properties of Serial::usartX's register sequence (Spec)                 *)
(***************************************************************************)
\* usartX has returned its Serial and nothing has been called on it yet
JustConstructed == sp = "serial" /\ asked = NotAsked

\* C17: usartX enables the bus clock, then asserts and then releases the
\* reset, then writes the divisor to the baud register, then writes the
\* control register with UE, RE and TE. From the reset on, UE is never set
\* while the baud register does not hold the divisor. On return the reset is
\* released, the baud register holds the divisor and both interrupt enables
\* are clear.
C17_SetupOrder ==
    LET d == Divisor(pclkX(usart, clocks), baud_rate) IN
    /\ sp = "rst_set" => enr /\ ~rstr
    /\ sp = "rst_clear" => enr /\ rstr /\ ~cr1.ue
    /\ sp \in {"divide", "panicked", "brr_write"} =>
         enr /\ ~rstr /\ ~cr1.ue /\ brr = 0
    /\ sp = "cr1_write" => enr /\ ~rstr /\ ~cr1.ue /\ brr = d
    /\ (cr1.ue /\ sp \notin {"new", "rst_set"}) => brr = d
    /\ JustConstructed =>
         /\ enr /\ ~rstr
         /\ brr = d
         /\ cr1.ue /\ cr1.re /\ cr1.te
         /\ ~cr1.rxneie /\ ~cr1.txeie

\* usartX has returned on a peripheral that earlier code had left enabled,
\* with interrupts on and another divisor
C17_Witness ==
    /\ JustConstructed
    /\ before.cr1 = CR1Used
    /\ before.brr # brr

(***************************************************************************)
(* Properties of Rx::circ_read's register sequence (Spec)                  *)
(***************************************************************************)
\* The registers written by the accesses acc[1] .. acc[n]
WrittenUpTo(acc, n) == {acc[i].reg : i \in {j \in 1..n : acc[j].k = "w"}}

\* C18: the channel is enabled only by circ_read's last register access, made
\* after the memory address, the transfer count and the peripheral address
\* have each been written by the call: while one of the three is still to be
\* written the channel is off, and once it is on the three registers hold
\* what the call programmed.
C18_EnableLast ==
    /\ rx.pc \in {"cndtr", "cpar", "ccr"} => ~ccr.en
    /\ ccr.en =>
         /\ rx.pc = "circ"
         /\ rx.acc[Len(rx.acc)] = Wr("dma.ccr", 0)
         /\ {"dma.cmar", "dma.cndtr", "dma.cpar"}
               \subseteq WrittenUpTo(rx.acc, Len(rx.acc) - 1)
         /\ cmar = FirstSegment(buffer).addr
         /\ cndtr = Ndt(FirstSegment(buffer).len)
         /\ cpar = RegAddr(usart, "rdr")

\* circ_read has enabled a channel for a buffer of two segments of 8 bytes
C18_Witness ==
    /\ ccr.en
    /\ rx.pc = "circ"
    /\ cmar # 0 /\ cndtr = 16 /\ cpar # NoAddr

(***************************************************************************)
(* Properties of listen and unlisten (Spec)                                *)
(***************************************************************************)
\* The interrupt enable bit of an event: Rxne => rxneie, Txe => txeie
IeBit(c, event) == IF event = "Rxne" THEN c.rxneie ELSE c.txeie

C13_CounterKeptRunning ==
    /\ [](tp # "none" => cycena)
    /\ [][/\ cycena => cycena'
          /\ cyccnt' # cyccnt =>
               /\ cyccnt' = Inc32(cyccnt)
               /\ age' = age + 1
               /\ UNCHANGED <<tp, lastCount, ticks, remaining, wrapped, from,
                              cycena>>
         ]_vars

\* The timer is idle again after has_wrapped() and a returned delay, the
\* counter having wrapped since it was enabled
C13_Witness ==
    /\ tp = "idle"
    /\ cycena
    /\ wrapped.called
    /\ from = "returned"
    /\ Lt32(cyccnt, lastCount)

\* C16, as stated: the final busy-wait's subtraction never traps, whatever
\* the counter and lastCount are.
C16_NoUnderflowTrap == tp # "panicked"

(***************************************************************************)
(* Properties of Tx::flush (SpecIo)                                        *)
(***************************************************************************)
TxFlushDone == tx.pc = "idle" /\ tx.op = "flush"

\* C14: flush() returns Ok exactly if its status sample had TC set and
\* WouldBlock otherwise, its one register access is the read of ISR, and
\* neither of its steps changes a data, status, control or baud register.
C14_FlushIffTc ==
    [][ /\ (tx.pc = "idle" /\ tx'.pc = "sampled" /\ tx'.op = "flush")
           => /\ tx'.isr = TxFlags(isr)
              /\ UNCHANGED <<tdr, rdr, isr, cr1, brr>>
        /\ (tx.pc = "sampled" /\ tx.op = "flush" /\ tx'.pc = "idle")
           => /\ tx'.res = (IF tx.isr.tc THEN "Ok" ELSE "WouldBlock")
              /\ tx'.acc = <<Rd("isr")>>
              /\ UNCHANGED <<tdr, rdr, isr, cr1, brr>> ]_vars

\* flush() has returned WouldBlock on a sample with TXE set and TC clear: the
\* byte has left TDR and is still being shifted out
C14_Witness ==
    /\ TxFlushDone
    /\ tx.res = "WouldBlock"
    /\ tx.isr.txe /\ ~tx.isr.tc
    /\ tdr \in Bytes

(***************************************************************************)
(* Properties of the two halves running side by side (SpecIo)              *)
(***************************************************************************)
\* C11: with the register accesses of read() on one side and of write() and
\* flush() on the other interleaved in any way, each operation ends as it
\* would have alone on the hardware as it was at its own status sample: read()
\* with the outcome of its sample and, for a byte, with what the data register
\* held then, after the same accesses; write() and flush() with the outcome
\* of their sample, after the same accesses. No step of the transmitter
\* changes the receiver, its data register or its flags, and no step of the
\* receiver changes the transmitter, its data register or its flags.
C11_HalvesIndependent ==
    /\ [](RxReadDone =>
            LET o == ReadOutcome(rx.isr) IN
            IF o = "Data"
              THEN /\ rx.res = "Ok"
                   /\ rx.byte = rx.seen
                   /\ rx.acc = <<Rd("isr"), Rd("rdr")>>
              ELSE /\ rx.res = o
                   /\ rx.acc = <<Rd("isr")>>)
    /\ []((tx.pc = "idle" /\ tx.op # "none") =>
            LET ok == IF tx.op = "write" THEN tx.isr.txe ELSE tx.isr.tc IN
            /\ tx.res = (IF ok THEN "Ok" ELSE "WouldBlock")
            /\ tx.acc = (IF tx.op = "write" /\ ok
                           THEN <<Rd("isr"), Wr("tdr", tx.byte)>>
                           ELSE <<Rd("isr")>>))
    /\ [][ /\ tx' # tx =>
                /\ UNCHANGED <<rx, rdr>>
                /\ RxFlags(isr') = RxFlags(isr)
           /\ rx' # rx =>
                /\ UNCHANGED <<tx, tdr>>
                /\ TxFlags(isr') = TxFlags(isr) ]_vars

\* read() has delivered a byte while write() is between its status sample,
\* which found the data register empty, and its store
C11_Witness ==
    /\ RxReadDone /\ rx.res = "Ok"
    /\ tx.pc = "sampled" /\ tx.op = "write" /\ tx.isr.txe
    /\ tdr \in Bytes

(***************************************************************************)
(* Properties of Rx::read over successive calls (SpecIo)                   *)
(***************************************************************************)
SampledError(i) == i.pe \/ i.fe \/ i.nf \/ i.ore

\* C15: a read() that delivers a byte has loaded RDR once, after ISR, and
\* delivers what RDR held; the load leaves data-ready clear. A read() that
\* follows it with no frame arrived since it returned, and whose sample shows
\* no error flag, returns WouldBlock.
C15_ByteDeliveredOnce ==
    /\ [](RxReadDone =>
            /\ rx.res = "Ok" => rx.acc = <<Rd("isr"), Rd("rdr")>>
            /\ (rx.follows = "Ok" /\ ~SampledError(rx.isr))
                  => rx.res = "WouldBlock")
    /\ [][(rx.pc = "sampled" /\ rx'.pc = "idle" /\ rx'.res = "Ok") =>
            /\ rx'.byte = rdr
            /\ isr.rxne /\ ~isr'.rxne ]_vars

\* read() has returned WouldBlock right after a read() that delivered a byte
C15_Witness ==
    /\ RxReadDone
    /\ rx.follows = "Ok"
    /\ rx.res = "WouldBlock"
    /\ rdr \in RxBytes

\* C20: a read() that returns an error or WouldBlock has accessed ISR only,
\* and neither of its steps changes a status, data, control, baud or DMA
\* register. So a read() that follows it with nothing moved since it sampled
\* returns the same again. With an error flag in its sample read() delivers
\* no byte, data-ready or not.
C20_FailedReadIdempotent ==
    /\ [](RxReadDone =>
            /\ rx.res \in ReadFailures => rx.acc = <<Rd("isr")>>
            /\ rx.follows \in ReadFailures => rx.res = rx.follows
            /\ SampledError(rx.isr) => rx.res \in ReadFailures \ {"WouldBlock"})
    /\ [][ /\ (rx.pc = "idle" /\ rx'.pc = "sampled")
              => UNCHANGED <<isr, rdr, tdr, cr1, brr, cmar, cndtr, cpar, ccr>>
           /\ (rx.pc = "sampled" /\ rx'.pc = "idle" /\ rx'.res \in ReadFailures)
              => UNCHANGED <<isr, rdr, tdr, cr1, brr, cmar, cndtr, cpar, ccr>>
         ]_vars

\* read() has returned Overrun a second time, on a sample that also shows a
\* byte waiting
C20_Witness ==
    /\ RxReadDone
    /\ rx.follows = "Overrun"
    /\ rx.res = "Overrun"
    /\ rx.isr.rxne
    /\ isr.rxne /\ isr.ore

(***************************************************************************)
(* Properties of circ_read's channel (Spec)                                *)
(***************************************************************************)
\* C21, as stated: the channel circ_read works on is the one the hal!
\* invocation lists as the instance's rx channel (C5 for USART1, C6 for
\* USART2), not the one it lists as its tx channel.
C21_RxChannelBound ==
    chan # "none" =>
      /\ chan = HalTable[usart].rx
      /\ chan # HalTable[usart].tx

====
